---- MODULE Spec2Model ----
(***************************************************************************)
(* A model of gdwrd/esrp: the Value type (value/value.go), the SRP engine  *)
(* (engine/engine.go) and the Standard variant (engine/standard.go).       *)
(*                                                                         *)
(* A Go string is modelled as a sequence of one-character strings, a       *)
(* []byte as a sequence of numbers in 0..255 and a *big.Int as an integer. *)
(***************************************************************************)
EXTENDS Integers, Sequences, FiniteSets, TLC

VARIABLES
    arg,      \* SpecValue: the argument of the last call of value.New
    value,    \* SpecValue: the Value that call returned, or NoValue
    proc,     \* "running", "exited" (log.Fatal) or "panicked" (a Go panic)
    engine,   \* Spec: the Engine built by engine.New, or NoEngine
    sess,     \* Spec: the protocol values the driver holds
    call,     \* Spec: the last Engine/Standard call and its outcome
    given,    \* SpecConc: the shared Engine fields and input Values, as built
    store,    \* SpecConc: the same Values now, their big.Ints as they are in memory
    thr,      \* SpecConc: each session's running call: its position and locals
    pair      \* SpecPair: two calls of CalcM, or of CalcM2, under one key

vars == <<arg, value, proc, engine, sess, call, given, store, thr, pair>>

(***************************************************************************)
(* Bounds of the model.                                                    *)
(***************************************************************************)
MaxHexLen == 3      \* longest hex string handed to value.New
MaxBytesLen == 2    \* longest byte slice handed to value.New
MaxMag == 20        \* largest magnitude of the small big.Ints handed to value.New
MaxSecret == 3      \* largest secret ephemeral exponent a, b the driver draws
NSessions == 2      \* concurrent sessions sharing one Engine
MaxPlainExp == 13   \* largest exponent of an unreduced power (N = 0)

(***************************************************************************)
(* value/value.go                                                          *)
(***************************************************************************)

\* encoding/hex's table of digits, used by fmt's %x as well.
hextable ==
    <<"0", "1", "2", "3", "4", "5", "6", "7", "8", "9", "a", "b", "c", "d", "e", "f">>

\* The upper-case digits hex.DecodeString accepts too.
upperdigits ==
    <<"0", "1", "2", "3", "4", "5", "6", "7", "8", "9", "A", "B", "C", "D", "E", "F">>

\* encoding/hex fromHexChar: the digit's value, or -1 for no hex digit.
fromHexChar(c) ==
    IF \E i \in 1..16 : hextable[i] = c
    THEN (CHOOSE i \in 1..16 : hextable[i] = c) - 1
    ELSE IF \E i \in 1..16 : upperdigits[i] = c
         THEN (CHOOSE i \in 1..16 : upperdigits[i] = c) - 1
         ELSE -1

\* fmt.Sprintf("%x", string(b)): two lower-case digits per byte.
EncodeHex(b) ==
    [i \in 1..(2 * Len(b)) |->
        IF i % 2 = 1
        THEN hextable[(b[(i + 1) \div 2] \div 16) + 1]
        ELSE hextable[(b[i \div 2] % 16) + 1]]

\* hex.DecodeString: an error for an odd length or a character that is no
\* hex digit; otherwise one byte per pair of digits. (The bytes returned with
\* an error are never read: New ends the process.)
DecodeString(s) ==
    IF Len(s) % 2 = 1 \/ \E i \in 1..Len(s) : fromHexChar(s[i]) = -1
    THEN [err |-> TRUE, bytes |-> <<>>]
    ELSE [err |-> FALSE,
          bytes |-> [i \in 1..(Len(s) \div 2) |->
                        16 * fromHexChar(s[2 * i - 1]) + fromHexChar(s[2 * i])]]

\* big.Int.SetBytes: the bytes read as an unsigned big-endian number.
RECURSIVE SetBytes(_)
SetBytes(b) ==
    IF Len(b) = 0 THEN 0
    ELSE 256 * SetBytes(SubSeq(b, 1, Len(b) - 1)) + b[Len(b)]

\* big.Int.Bytes: the big-endian bytes of the absolute value, no leading zero.
RECURSIVE MagBytes(_)
MagBytes(m) ==
    IF m = 0 THEN <<>> ELSE Append(MagBytes(m \div 256), m % 256)

IntBytesPadded(n) ==
    LET b == MagBytes(IF n < 0 THEN -n ELSE n)
    IN IF Len(b) < 2 THEN [i \in 1..(2 - Len(b)) |-> 0] \o b ELSE b

IntBytes(n) == MagBytes(IF n < 0 THEN -n ELSE n)

NoValue == [bytes |-> <<>>, hex |-> <<"?">>, int |-> -1]

\* The arguments of value.New, by dynamic type.
StrArg(s) == [kind |-> "string", val |-> s]
BytesArg(b) == [kind |-> "bytes", val |-> b]
IntArg(n) == [kind |-> "int", val |-> n]
NoArg == [kind |-> "none", val |-> <<>>]

\* New with the bytes of a byte argument normalised through the integer.
NewThroughInt(a) ==
    LET hex == IF a.kind = "string" THEN a.val
               ELSE IF a.kind = "bytes" THEN EncodeHex(IntBytes(SetBytes(a.val)))
               ELSE IF a.kind = "int" THEN EncodeHex(IntBytes(a.val))
               ELSE <<>>
        d == DecodeString(hex)
    IN IF d.err
       THEN [fatal |-> TRUE, value |-> NoValue]
       ELSE [fatal |-> FALSE,
             value |-> [bytes |-> d.bytes, hex |-> hex, int |-> SetBytes(d.bytes)]]

\* value.New: the hex is the string itself, or the %x of the bytes, or the %x
\* of the integer's magnitude bytes; the bytes are the decoded hex and the
\* integer is the bytes read big-endian. A decode error is log.Fatal.
New(a) ==
    LET hex == IF a.kind = "string" THEN a.val
               ELSE IF a.kind = "bytes" THEN EncodeHex(a.val)
               ELSE IF a.kind = "int" THEN EncodeHex(IntBytes(a.val))
               ELSE <<>>
        d == DecodeString(hex)
    IN IF d.err
       THEN [fatal |-> TRUE, value |-> NoValue]
       ELSE [fatal |-> FALSE,
             value |-> [bytes |-> d.bytes, hex |-> hex, int |-> SetBytes(d.bytes)]]

(***************************************************************************)
(* crypto: the primitives the Engine is built on. Hash digests the         *)
(* concatenation of its inputs' raw bytes into a digest of fixed width;    *)
(* PasswordHash and KeyedHash are the legacy forms H(salt | password) and  *)
(* H(message | key). The digest is a small mixing function of one byte.    *)
(***************************************************************************)
DigestModulus == 256

RECURSIVE Mix(_, _)
Mix(h, b) ==
    IF b = <<>> THEN h ELSE Mix((h * 31 + Head(b) + 17) % DigestModulus, Tail(b))

Digest(b) == <<Mix(7, b)>>

RECURSIVE ConcatBytes(_)
ConcatBytes(vs) ==
    IF vs = <<>> THEN <<>> ELSE Head(vs).bytes \o ConcatBytes(Tail(vs))

H(vs) == New(BytesArg(Digest(ConcatBytes(vs)))).value

PasswordHash(salt, password) == New(BytesArg(Digest(salt.bytes \o password))).value

KeyedHash(key, message) == New(BytesArg(Digest(message.bytes \o key.bytes))).value

\* The Crypto implementations an Engine may be built on: the digest above, and
\* a degenerate one whose hash output is the empty Value.
Cryptos == {"digest", "empty"}

\* crypto.H of the implementation c.
HashOf(c, vs) == IF c = "empty" THEN New(BytesArg(<<>>)).value ELSE H(vs)

(***************************************************************************)
(* math/big as the engine uses it.                                         *)
(***************************************************************************)
RECURSIVE Pow(_, _)
Pow(x, y) == IF y = 0 THEN 1 ELSE x * Pow(x, y - 1)

RECURSIVE PowMod(_, _, _)
PowMod(x, y, m) ==
    IF y = 0 THEN 1 % m
    ELSE LET h == PowMod(x, y \div 2, m)
             sq == (h * h) % m
         IN IF y % 2 = 1 THEN (sq * (x % m)) % m ELSE sq

\* big.Int.Exp(x, y, m) for y >= 0: x**y mod m, and x**y when m = 0.
Exp(x, y, m) == IF m = 0 THEN Pow(x, y) ELSE PowMod(x, y, m)

\* v.New of a *big.Int: never a decode error.
FromInt(n) == New(IntArg(n)).value

(***************************************************************************)
(* engine/engine.go                                                        *)
(***************************************************************************)
NoEngine ==
    [built |-> FALSE, crypto |-> "none", N |-> NoValue, G |-> NoValue, k |-> NoValue]

\* engine.New: no check of the group; k = H(N, g).
EngineNew(c, N, G) ==
    [built |-> TRUE, crypto |-> c, N |-> N, G |-> G, k |-> HashOf(c, <<N, G>>)]

\* Engine.K
K(e) == IF e.k.hex = <<>> THEN HashOf(e.crypto, <<e.N, e.G>>) ELSE e.k

\* The calls of crypto.H one call of Engine.K makes.
KHashCalls(e) == IF e.k.hex = <<>> THEN 1 ELSE 0

\* Engine.modExp
modExp(e, a, b) == FromInt(Exp(a.int, b.int, e.N.int))

\* Engine.CalcV
CalcV(e, x) == modExp(e, e.G, x)

\* Engine.CalcA
CalcA(e, a) == modExp(e, e.G, a)

\* CalcB without the final reduction modulo N.
CalcBNoMod(e, b, val) ==
    LET mul == e.k.int * val.int
        res == mul + modExp(e, e.G, b).int
    IN [panic |-> FALSE, value |-> FromInt(res)]

\* Engine.CalcB: big.Int.Mod panics (division by zero) when N = 0.
CalcB(e, b, val) ==
    LET mul == e.k.int * val.int
        res == mul + modExp(e, e.G, b).int
    IN IF e.N.int = 0
       THEN [panic |-> TRUE, value |-> NoValue]
       ELSE [panic |-> FALSE, value |-> FromInt(res % e.N.int)]

\* Engine.CalcU
CalcU(e, aa, bb) == HashOf(e.crypto, <<aa, bb>>)

\* Engine.CalcClientS: left may be negative; v.New keeps its magnitude.
\* Engine.CalcClientS with the multiplier k left out of the base.
CalcClientSNoK(e, bb, a, x, u) ==
    LET left == bb.int - modExp(e, e.G, x).int
        right == a.int + u.int * x.int
    IN modExp(e, FromInt(left), FromInt(right))

CalcClientS(e, bb, a, x, u) ==
    LET mul == e.k.int * modExp(e, e.G, x).int
        left == bb.int - mul
        right == a.int + u.int * x.int
    IN modExp(e, FromInt(left), FromInt(right))

\* Engine.CalcServerS
CalcServerS(e, aa, b, val, u) ==
    LET left == aa.int * modExp(e, val, u).int
    IN modExp(e, FromInt(left), b)

\* Engine.CalcK
CalcK(e, ss) == HashOf(e.crypto, <<ss>>)

(***************************************************************************)
(* engine/standard.go                                                      *)
(***************************************************************************)
\* Standard.CalcX: v.New(salt) of the salt string may end the process.
CalcX(e, password, salt) ==
    LET s == New(StrArg(salt))
    IN IF s.fatal
       THEN [fatal |-> TRUE, value |-> NoValue]
       ELSE [fatal |-> FALSE, value |-> PasswordHash(s.value, password)]

\* CalcM with the salt left out of the sum.
CalcMNoSalt(e, kk, aa, bb, ss, salt, username) ==
    KeyedHash(kk, FromInt(aa.int + bb.int))

\* CalcM with the premaster secret added to the sum.
CalcMWithS(e, kk, aa, bb, ss, salt, username) ==
    KeyedHash(kk, FromInt(aa.int + salt.int + bb.int + ss.int))

\* Standard.CalcM
CalcM(e, kk, aa, bb, ss, salt, username) ==
    LET val1 == aa.int + salt.int
        val2 == val1 + bb.int
    IN KeyedHash(kk, FromInt(val2))

\* Standard.CalcM2
CalcM2(e, kk, aa, mm, ss) ==
    LET val == aa.int + mm.int
    IN KeyedHash(kk, FromInt(val))

(***************************************************************************)
(* The protocol driver: one Engine, one session, the calls in the order of *)
(* the SRP messages. Each action is one call of an Engine or Standard      *)
(* method; call records the last call and how it ended.                    *)
(***************************************************************************)
Fields == {"salt", "x", "v", "a", "A", "b", "B", "u", "Sc", "Ss", "Kc", "Ks", "M", "M2"}
NoSession == [f \in Fields |-> NoValue]
\* No call in a slot of pair, and the pair of no calls.
NoPairCall == [op |-> "none", in |-> <<>>, out |-> NoValue]
NoPair == [key |-> NoValue, first |-> NoPairCall, second |-> NoPairCall]
NoCall ==
    [op |-> "none", outcome |-> "none", result |-> NoValue, hexin |-> <<>>, hcalls |-> 0]

Moduli == {0, 1, 7, 11, 23}
Generators == {2, 5}
Passwords == {<<112>>, <<112, 119>>}
SaltStrings == {<<"0", "a">>, <<"A", "B">>, <<"0", "4", "5", "d">>, <<"a">>, <<"0", "g">>}
Usernames == {"alice", "bob"}
Secrets == 1..MaxSecret

Has(f) == sess[f] # NoValue
Ready == proc = "running" /\ engine.built
Returned(op, r) ==
    [op |-> op, outcome |-> "ok", result |-> r, hexin |-> <<>>, hcalls |-> 0]
\* A call that returned r after n calls of crypto.H.
ReturnedHashing(op, r, n) == [Returned(op, r) EXCEPT !.hcalls = n]
\* An unreduced power (N = 0) is followed only while it stays small.
ExpFits(y) == engine.N.int # 0 \/ y.int <= MaxPlainExp

NewEngine ==
    /\ proc = "running" /\ ~engine.built
    /\ \E c \in Cryptos, n \in Moduli, g \in Generators :
          LET e == EngineNew(c, FromInt(n), FromInt(g))
          IN engine' = e /\ call' = ReturnedHashing("New", e.k, 1)
    /\ UNCHANGED <<sess, proc, pair, arg, value, given, store, thr>>

DoK ==
    /\ Ready
    /\ call' = ReturnedHashing("K", K(engine), KHashCalls(engine))
    /\ UNCHANGED <<engine, sess, proc, pair, arg, value, given, store, thr>>

DoCalcX ==
    /\ Ready /\ ~Has("x")
    /\ \E password \in Passwords, salt \in SaltStrings :
          LET r == CalcX(engine, password, salt)
          IN IF r.fatal
             THEN /\ proc' = "exited"
                  /\ call' = [op |-> "CalcX", outcome |-> "exit",
                              result |-> NoValue, hexin |-> salt, hcalls |-> 0]
                  /\ sess' = sess
             ELSE /\ proc' = proc
                  /\ call' = [op |-> "CalcX", outcome |-> "ok",
                              result |-> r.value, hexin |-> salt, hcalls |-> 0]
                  /\ sess' = [sess EXCEPT !.x = r.value,
                                          !.salt = New(StrArg(salt)).value]
    /\ UNCHANGED <<engine, pair, arg, value, given, store, thr>>

DoCalcV ==
    /\ Ready /\ Has("x") /\ ~Has("v") /\ ExpFits(sess.x)
    /\ LET r == CalcV(engine, sess.x)
       IN sess' = [sess EXCEPT !.v = r] /\ call' = Returned("CalcV", r)
    /\ UNCHANGED <<engine, proc, pair, arg, value, given, store, thr>>

DoCalcA ==
    /\ Ready /\ Has("v") /\ ~Has("A")
    /\ \E a \in Secrets :
          LET r == CalcA(engine, FromInt(a))
          IN /\ sess' = [sess EXCEPT !.a = FromInt(a), !.A = r]
             /\ call' = Returned("CalcA", r)
    /\ UNCHANGED <<engine, proc, pair, arg, value, given, store, thr>>

DoCalcB ==
    /\ Ready /\ Has("A") /\ ~Has("B")
    /\ \E b \in Secrets :
          LET r == CalcB(engine, FromInt(b), sess.v)
          IN IF r.panic
             THEN /\ proc' = "panicked"
                  /\ call' = [op |-> "CalcB", outcome |-> "panic",
                              result |-> NoValue, hexin |-> <<>>, hcalls |-> 0]
                  /\ sess' = sess
             ELSE /\ proc' = proc
                  /\ call' = Returned("CalcB", r.value)
                  /\ sess' = [sess EXCEPT !.b = FromInt(b), !.B = r.value]
    /\ UNCHANGED <<engine, pair, arg, value, given, store, thr>>

DoCalcU ==
    /\ Ready /\ Has("B") /\ ~Has("u")
    /\ LET r == CalcU(engine, sess.A, sess.B)
       IN sess' = [sess EXCEPT !.u = r] /\ call' = ReturnedHashing("CalcU", r, 1)
    /\ UNCHANGED <<engine, proc, pair, arg, value, given, store, thr>>

DoCalcClientS ==
    /\ Ready /\ Has("u") /\ ~Has("Sc")
    /\ LET r == CalcClientS(engine, sess.B, sess.a, sess.x, sess.u)
       IN sess' = [sess EXCEPT !.Sc = r] /\ call' = Returned("CalcClientS", r)
    /\ UNCHANGED <<engine, proc, pair, arg, value, given, store, thr>>

DoCalcServerS ==
    /\ Ready /\ Has("Sc") /\ ~Has("Ss")
    /\ LET r == CalcServerS(engine, sess.A, sess.b, sess.v, sess.u)
       IN sess' = [sess EXCEPT !.Ss = r] /\ call' = Returned("CalcServerS", r)
    /\ UNCHANGED <<engine, proc, pair, arg, value, given, store, thr>>

DoCalcK ==
    /\ Ready /\ Has("Ss") /\ ~Has("Ks")
    /\ IF ~Has("Kc")
       THEN LET r == CalcK(engine, sess.Sc)
            IN sess' = [sess EXCEPT !.Kc = r] /\ call' = ReturnedHashing("CalcK", r, 1)
       ELSE LET r == CalcK(engine, sess.Ss)
            IN sess' = [sess EXCEPT !.Ks = r] /\ call' = ReturnedHashing("CalcK", r, 1)
    /\ UNCHANGED <<engine, proc, pair, arg, value, given, store, thr>>

DoCalcM ==
    /\ Ready /\ Has("Ks") /\ ~Has("M")
    /\ \E ss \in {sess.Sc, sess.Ss, FromInt(0)}, username \in Usernames :
          LET r == CalcM(engine, sess.Kc, sess.A, sess.B, ss, sess.salt, username)
          IN sess' = [sess EXCEPT !.M = r] /\ call' = Returned("CalcM", r)
    /\ UNCHANGED <<engine, proc, pair, arg, value, given, store, thr>>

DoCalcM2 ==
    /\ Ready /\ Has("M") /\ ~Has("M2")
    /\ \E ss \in {sess.Sc, sess.Ss, FromInt(0)} :
          LET r == CalcM2(engine, sess.Ks, sess.A, sess.M, ss)
          IN sess' = [sess EXCEPT !.M2 = r] /\ call' = Returned("CalcM2", r)
    /\ UNCHANGED <<engine, proc, pair, arg, value, given, store, thr>>

Init ==
    /\ arg = NoArg
    /\ pair = NoPair
    /\ value = NoValue
    /\ proc = "running"
    /\ engine = NoEngine
    /\ sess = NoSession
    /\ call = NoCall
    /\ given = <<>>
    /\ store = <<>>
    /\ thr = <<>>

Next ==
    \/ NewEngine
    \/ DoK
    \/ DoCalcX
    \/ DoCalcV
    \/ DoCalcA
    \/ DoCalcB
    \/ DoCalcU
    \/ DoCalcClientS
    \/ DoCalcServerS
    \/ DoCalcK
    \/ DoCalcM
    \/ DoCalcM2

Spec == Init /\ [][Next]_vars

(***************************************************************************)
(* The inputs of the Value specification.                                  *)
(***************************************************************************)
HexChars == {"0", "a", "A", "g"}
ByteVals == {0, 10, 171}

RECURSIVE SeqsUpTo(_, _)
SeqsUpTo(S, n) ==
    IF n = 0 THEN {<<>>}
    ELSE LET shorter == SeqsUpTo(S, n - 1)
         IN shorter \cup {Append(s, x) : s \in shorter, x \in S}

HexStrings == SeqsUpTo(HexChars, MaxHexLen)
ByteSeqs == SeqsUpTo(ByteVals, MaxBytesLen)
BigInts == ((0 - MaxMag)..MaxMag) \cup {255, 256, 0 - 256, 2748, 65535, 65536}

\* The caller's New(arg): the Value is returned, or the process has ended.
CallNew(a) ==
    /\ proc = "running"
    /\ arg' = a
    /\ LET r == New(a)
       IN IF r.fatal
          THEN value' = NoValue /\ proc' = "exited"
          ELSE value' = r.value /\ proc' = "running"
    /\ UNCHANGED <<pair, engine, sess, call, given, store, thr>>

NewFromString == \E s \in HexStrings : CallNew(StrArg(s))
NewFromBytes == \E b \in ByteSeqs : CallNew(BytesArg(b))
NewFromInt == \E n \in BigInts : CallNew(IntArg(n))

InitValue ==
    /\ arg = NoArg
    /\ pair = NoPair
    /\ value = NoValue
    /\ proc = "running"
    /\ engine = NoEngine
    /\ sess = NoSession
    /\ call = NoCall
    /\ given = <<>>
    /\ store = <<>>
    /\ thr = <<>>

NextValue ==
    \/ NewFromString
    \/ NewFromBytes
    \/ NewFromInt

SpecValue == InitValue /\ [][NextValue]_vars

(***************************************************************************)
(* Concurrent sessions on one shared Engine. A Value's Int() is a pointer  *)
(* to a big.Int: store holds the shared Values with the number each        *)
(* big.Int holds now, and a session's loc holds the big.Ints it allocated. *)
(* Every statement of a method is one step: it reads its operands as they  *)
(* are in memory and writes its receiver.                                  *)
(***************************************************************************)
Sessions == 1..NSessions
SharedNames == {"N", "G", "k", "x", "a", "b", "v", "A", "B", "u", "S", "K", "salt", "M"}
Locals == {"t", "mul", "prod", "left", "right", "res", "val"}
Methods == {"CalcB", "CalcClientS", "CalcServerS", "CalcM", "CalcM2"}
Idle == [op |-> "none", pc |-> 0, done |-> FALSE,
         loc |-> [l \in Locals |-> 0], result |-> NoValue]

\* The Engine whose fields are the shared N, G and k.
EngineOf(st) ==
    [built |-> TRUE, crypto |-> "digest", N |-> st.N, G |-> st.G, k |-> st.k]

\* The shared Values of a protocol run over the group (n, g) with secrets a, b.
SharedValues(n, g, a, b) ==
    LET e == EngineNew("digest", FromInt(n), FromInt(g))
        salt == New(StrArg(<<"0", "a">>)).value
        x == PasswordHash(salt, <<112>>)
        v == CalcV(e, x)
        aa == CalcA(e, FromInt(a))
        bb == CalcB(e, FromInt(b), v).value
        u == CalcU(e, aa, bb)
        ss == CalcServerS(e, aa, FromInt(b), v, u)
        kk == CalcK(e, ss)
    IN [N |-> e.N, G |-> e.G, k |-> e.k, x |-> x, a |-> FromInt(a), b |-> FromInt(b),
        v |-> v, A |-> aa, B |-> bb, u |-> u, S |-> ss, K |-> kk, salt |-> salt,
        M |-> CalcM(e, kk, aa, bb, ss, salt, "alice")]

\* The number in the big.Int p points to.
Rd(s, p) == IF p \in Locals THEN thr[s].loc[p] ELSE store[p].int

\* A big.Int method with receiver p: p's number becomes n.
Assign(s, p, n) ==
    IF p \in Locals
    THEN /\ thr' = [thr EXCEPT ![s].loc[p] = n, ![s].pc = @ + 1]
         /\ store' = store
    ELSE /\ store' = [store EXCEPT ![p].int = n]
         /\ thr' = [thr EXCEPT ![s].pc = @ + 1]

Return(s, v) ==
    /\ thr' = [thr EXCEPT ![s].done = TRUE, ![s].result = v]
    /\ store' = store

\* e.modExp(a, b).Int(): the big.Int of the new Value.
ModExpInt(s, a, b) == FromInt(Exp(Rd(s, a), Rd(s, b), Rd(s, "N"))).int

\* The receivers the methods allocate: new(big.Int), big.NewInt(0).
CalcMValAliasesA == "A"
CalcMVal == "val"
CalcM2Val == "val"

StartCall(s) ==
    /\ thr[s].op = "none" \/ thr[s].done
    /\ \E op \in Methods : thr' = [thr EXCEPT ![s] = [Idle EXCEPT !.op = op, !.pc = 1]]
    /\ UNCHANGED <<store, given, pair, arg, value, proc, engine, sess, call>>

CalcBStep(s) ==
    /\ thr[s].op = "CalcB" /\ ~thr[s].done
    /\ CASE thr[s].pc = 1 -> Assign(s, "mul", Rd(s, "k") * Rd(s, "v"))
         [] thr[s].pc = 2 -> Assign(s, "t", ModExpInt(s, "G", "b"))
         [] thr[s].pc = 3 -> Assign(s, "res", Rd(s, "mul") + Rd(s, "t"))
         [] OTHER -> Return(s, FromInt(Rd(s, "res") % Rd(s, "N")))
    /\ UNCHANGED <<given, pair, arg, value, proc, engine, sess, call>>

CalcClientSStep(s) ==
    /\ thr[s].op = "CalcClientS" /\ ~thr[s].done
    /\ CASE thr[s].pc = 1 -> Assign(s, "t", ModExpInt(s, "G", "x"))
         [] thr[s].pc = 2 -> Assign(s, "mul", Rd(s, "k") * Rd(s, "t"))
         [] thr[s].pc = 3 -> Assign(s, "left", Rd(s, "B") - Rd(s, "mul"))
         [] thr[s].pc = 4 -> Assign(s, "prod", Rd(s, "u") * Rd(s, "x"))
         [] thr[s].pc = 5 -> Assign(s, "right", Rd(s, "a") + Rd(s, "prod"))
         [] OTHER -> Return(s, FromInt(Exp(FromInt(Rd(s, "left")).int,
                                           FromInt(Rd(s, "right")).int, Rd(s, "N"))))
    /\ UNCHANGED <<given, pair, arg, value, proc, engine, sess, call>>

CalcServerSStep(s) ==
    /\ thr[s].op = "CalcServerS" /\ ~thr[s].done
    /\ CASE thr[s].pc = 1 -> Assign(s, "t", ModExpInt(s, "v", "u"))
         [] thr[s].pc = 2 -> Assign(s, "left", Rd(s, "A") * Rd(s, "t"))
         [] OTHER -> Return(s, FromInt(Exp(FromInt(Rd(s, "left")).int,
                                           Rd(s, "b"), Rd(s, "N"))))
    /\ UNCHANGED <<given, pair, arg, value, proc, engine, sess, call>>

CalcMStep(s) ==
    /\ thr[s].op = "CalcM" /\ ~thr[s].done
    /\ CASE thr[s].pc = 1 -> IF CalcMVal \in Locals
                             THEN Assign(s, CalcMVal, 0)
                             ELSE Assign(s, CalcMVal, Rd(s, CalcMVal))
         [] thr[s].pc = 2 -> Assign(s, CalcMVal, Rd(s, "A") + Rd(s, "salt"))
         [] thr[s].pc = 3 -> Assign(s, CalcMVal, Rd(s, CalcMVal) + Rd(s, "B"))
         [] OTHER -> Return(s, KeyedHash(store.K, FromInt(Rd(s, CalcMVal))))
    /\ UNCHANGED <<given, pair, arg, value, proc, engine, sess, call>>

CalcM2Step(s) ==
    /\ thr[s].op = "CalcM2" /\ ~thr[s].done
    /\ CASE thr[s].pc = 1 -> IF CalcM2Val \in Locals
                             THEN Assign(s, CalcM2Val, 0)
                             ELSE Assign(s, CalcM2Val, Rd(s, CalcM2Val))
         [] thr[s].pc = 2 -> Assign(s, CalcM2Val, Rd(s, "A") + Rd(s, "M"))
         [] OTHER -> Return(s, KeyedHash(store.K, FromInt(Rd(s, CalcM2Val))))
    /\ UNCHANGED <<given, pair, arg, value, proc, engine, sess, call>>

InitConc ==
    /\ arg = NoArg
    /\ pair = NoPair
    /\ value = NoValue
    /\ proc = "running"
    /\ engine = NoEngine
    /\ sess = NoSession
    /\ call = NoCall
    /\ \E n \in {7, 11}, g \in Generators, a \in Secrets :
          given = SharedValues(n, g, a, MaxSecret + 1 - a)
    /\ store = given
    /\ thr = [s \in Sessions |-> Idle]

NextConc ==
    \E s \in Sessions :
        \/ StartCall(s)
        \/ CalcBStep(s)
        \/ CalcClientSStep(s)
        \/ CalcServerSStep(s)
        \/ CalcMStep(s)
        \/ CalcM2Step(s)

SpecConc == InitConc /\ [][NextConc]_vars

(***************************************************************************)
(* Two calls of Standard.CalcM, or two of Standard.CalcM2, side by side     *)
(* under one session key K: pair holds the inputs and the result of each,  *)
(* so that a statement can compare two runs of the same method.            *)
(***************************************************************************)
\* The hex strings the inputs are built from: with and without leading zero
\* bytes, and with sums on both sides of the one-byte boundary.
PairHex ==
    {<<>>, <<"0", "1">>, <<"0", "0", "0", "1">>, <<"0", "2">>, <<"f", "f">>,
     <<"0", "1", "0", "0">>}
PairInputs == {New(StrArg(h)).value : h \in PairHex}
PairKeys == {FromInt(5), New(StrArg(<<"0", "0", "c", "3">>)).value}
PairSecrets == {FromInt(1), FromInt(2)}

\* The record of one call and the slot it goes to: the first free one, the
\* second call being of the same method as the first.
PairCall(op, in, out) == [op |-> op, in |-> in, out |-> out]
PairFree(op) ==
    /\ pair.key # NoValue
    /\ pair.second = NoPairCall
    /\ pair.first.op \in {"none", op}
PairPut(c) ==
    IF pair.first = NoPairCall
    THEN pair' = [pair EXCEPT !.first = c]
    ELSE pair' = [pair EXCEPT !.second = c]

PairCalcM ==
    /\ PairFree("CalcM")
    /\ \E aa \in PairInputs, salt \in PairInputs, bb \in PairInputs,
          ss \in PairSecrets, username \in Usernames :
          PairPut(PairCall("CalcM", <<aa, salt, bb>>,
                           CalcM(engine, pair.key, aa, bb, ss, salt, username)))
    /\ UNCHANGED <<arg, value, proc, engine, sess, call, given, store, thr>>

PairCalcM2 ==
    /\ PairFree("CalcM2")
    /\ \E aa \in PairInputs, mm \in PairInputs, ss \in PairSecrets :
          PairPut(PairCall("CalcM2", <<aa, mm>>,
                           CalcM2(engine, pair.key, aa, mm, ss)))
    /\ UNCHANGED <<arg, value, proc, engine, sess, call, given, store, thr>>

InitPair ==
    /\ arg = NoArg
    /\ value = NoValue
    /\ proc = "running"
    /\ engine = NoEngine
    /\ sess = NoSession
    /\ call = NoCall
    /\ given = <<>>
    /\ store = <<>>
    /\ thr = <<>>
    /\ \E kk \in PairKeys : pair = [NoPair EXCEPT !.key = kk]

NextPair ==
    \/ PairCalcM
    \/ PairCalcM2

SpecPair == InitPair /\ [][NextPair]_vars

(***************************************************************************)
(* What the claims about Value are stated with: the encodings, written     *)
(* without the operators of the model.                                     *)
(***************************************************************************)
LowerDigits == {hextable[i] : i \in 1..16}
AllDigits == LowerDigits \cup {upperdigits[i] : i \in 1..16}
LowerDigitValue(c) == (CHOOSE i \in 1..16 : hextable[i] = c) - 1

\* h is the lower-case, two-digits-per-byte hex of the bytes b.
IsLowerHexOf(h, b) ==
    /\ Len(h) = 2 * Len(b)
    /\ \A i \in 1..Len(h) : h[i] \in LowerDigits
    /\ \A i \in 1..Len(b) :
          b[i] = 16 * LowerDigitValue(h[2 * i - 1]) + LowerDigitValue(h[2 * i])

RECURSIVE Pow256(_)
Pow256(n) == IF n = 0 THEN 1 ELSE 256 * Pow256(n - 1)

\* The bytes b read as an unsigned big-endian number.
RECURSIVE BigEndian(_)
BigEndian(b) ==
    IF b = <<>> THEN 0 ELSE b[1] * Pow256(Len(b) - 1) + BigEndian(Tail(b))

\* b has no leading zero byte.
Minimal(b) == b = <<>> \/ b[1] # 0

\* s is an even-length string of hex digits.
ValidHex(s) == Len(s) % 2 = 0 /\ \A i \in 1..Len(s) : s[i] \in AllDigits

\* h is the lower-case hex of some byte sequence without a leading zero byte.
LowerHexOfMinimal(h) ==
    /\ Len(h) % 2 = 0
    /\ \A i \in 1..Len(h) : h[i] \in LowerDigits
    /\ Len(h) = 0 \/ ~(h[1] = "0" /\ h[2] = "0")

Made == arg.kind # "none" /\ proc = "running"

\* C4: for every Value New produced, Hex() is the lower-case even-length hex
\* of Bytes() and Int() is Bytes() read as an unsigned big-endian number.
C4_FormsSynchronized ==
    Made => /\ IsLowerHexOf(value.hex, value.bytes)
            /\ value.int = BigEndian(value.bytes)

C6_ConstructorsAgree ==
    /\ (arg.kind = "int" /\ arg.val >= 0) =>
          /\ proc = "running"
          /\ Minimal(value.bytes) /\ BigEndian(value.bytes) = arg.val
          /\ IsLowerHexOf(value.hex, value.bytes)
    /\ (arg.kind = "bytes" /\ Minimal(arg.val)) =>
          /\ proc = "running"
          /\ value.bytes = arg.val /\ value.int = BigEndian(arg.val)
          /\ IsLowerHexOf(value.hex, value.bytes)
    /\ (arg.kind = "string" /\ LowerHexOfMinimal(arg.val)) =>
          /\ proc = "running"
          /\ value.hex = arg.val /\ IsLowerHexOf(arg.val, value.bytes)
          /\ Minimal(value.bytes) /\ value.int = BigEndian(value.bytes)

\* The integer 256 became the two bytes 01 00 and the hex "0100".
C6_Witness ==
    /\ arg = IntArg(256) /\ proc = "running"
    /\ value.bytes = <<1, 0>> /\ value.hex = <<"0", "1", "0", "0">>

(***************************************************************************)
(* The claims about the Engine and the Standard variant.                   *)
(***************************************************************************)
\* N is an odd prime and G generates a subgroup of more than one element.
ValidGroup == engine.built /\ engine.N.int \in {7, 11, 23}

\* The mathematical x mod n for n > 0, also of a negative x.
TrueMod(x, n) == IF x >= 0 THEN x % n ELSE (n - ((0 - x) % n)) % n

\* B - k * (G^x mod N) of the session, as CalcClientS forms it.
ClientBase == sess.B.int - engine.k.int * Exp(engine.G.int, sess.x.int, engine.N.int)
ClientExponent == sess.a.int + sess.u.int * sess.x.int

\* C1: with v = CalcV(x), A = CalcA(a), B = CalcB(b, v), u = CalcU(A, B) over a
\* valid group, the client's and the server's premaster secrets are the same.
C1_SecretsAgree ==
    (ValidGroup /\ Has("Sc") /\ Has("Ss")) => sess.Sc = sess.Ss

ReducedOps == {"CalcV", "CalcA", "CalcB", "CalcClientS", "CalcServerS"}
EngineOps == ReducedOps \cup {"K", "CalcU", "CalcK"}
InRange(v) == 0 <= v.int /\ v.int < engine.N.int

\* C2 as stated: every value an Engine operation returns, K, CalcU and CalcK
\* included, lies in [0, N) when N > 0.
C2_AllReduced ==
    (call.outcome = "ok" /\ call.op \in EngineOps /\ engine.N.int > 0) =>
        InRange(call.result)

\* C2 as amended: the values CalcV, CalcA, CalcB, CalcClientS and CalcServerS
\* return lie in [0, N) when N > 0 (K, CalcU and CalcK return the hash as it is).
C2_ModularOpsReduced ==
    (call.outcome = "ok" /\ call.op \in ReducedOps /\ engine.N.int > 0) =>
        InRange(call.result)

\* CalcClientS returned a reduced value although its base was negative.
C2_Witness ==
    /\ call.op = "CalcClientS" /\ call.outcome = "ok"
    /\ engine.N.int > 1 /\ ClientBase < 0
    /\ InRange(call.result) /\ call.result.int > 0

\* C3: CalcClientS returns ((B - k*G^x) mod N)^(a + u*x) mod N, the base
\* reduced by the true mathematical modulo, also when B - k*G^x is negative.
C3_NegativeBaseReduced ==
    (call.op = "CalcClientS" /\ call.outcome = "ok" /\ engine.N.int > 0) =>
        call.result.int =
            Exp(TrueMod(ClientBase, engine.N.int), ClientExponent, engine.N.int)

\* C7: a malformed hex handed to New by a protocol step produces no Value and
\* reaches the step's caller as an error that aborts that step.
C7_ErrorDelivered ==
    (call.op = "CalcX" /\ ~ValidHex(call.hexin)) =>
        /\ call.outcome = "error"
        /\ call.result = NoValue /\ ~Has("x")
        /\ proc = "running"

\* C8: an Engine is never built from N = 0, and no operation of a built
\* Engine fails for it later.
C8_ZeroModulusRejected ==
    /\ engine.built => engine.N.int # 0
    /\ call.outcome # "panic"

\* The minimal big-endian bytes of n >= 0, most significant byte first.
RECURSIVE ByteLength(_)
ByteLength(n) == IF n = 0 THEN 0 ELSE 1 + ByteLength(n \div 256)
MinimalBytes(n) ==
    [i \in 1..ByteLength(n) |-> (n \div Pow256(ByteLength(n) - i)) % 256]
\* The Value of the bytes b, its three forms in step.
ValueOfBytes(b) == [bytes |-> b, hex |-> EncodeHex(b), int |-> BigEndian(b)]

Alone(op) ==
    LET e == EngineOf(given)
    IN CASE op = "CalcB" -> CalcB(e, given.b, given.v).value
         [] op = "CalcClientS" -> CalcClientS(e, given.B, given.a, given.x, given.u)
         [] op = "CalcServerS" -> CalcServerS(e, given.A, given.b, given.v, given.u)
         [] op = "CalcM" -> CalcM(e, given.K, given.A, given.B, given.S, given.salt, "")
         [] OTHER -> CalcM2(e, given.K, given.A, given.M, given.S)

\* C9: whatever the interleaving of the sessions' calls, the Engine's N, G and
\* k and every input Value (bytes, hex and integer) stay as built, and a call
\* that has returned returned what it returns run alone on the same inputs.
C9_ImmutableUnderUse ==
    /\ store = given
    /\ \A s \in Sessions : thr[s].done => thr[s].result = Alone(thr[s].op)

\* CalcM has returned in one session while CalcServerS, which reads the same
\* A, is between two of its statements in another.
C9_Witness ==
    \E s, t \in Sessions :
        /\ s # t
        /\ thr[s].op = "CalcM" /\ thr[s].done
        /\ thr[s].result = Alone("CalcM")
        /\ thr[t].op = "CalcServerS" /\ ~thr[t].done /\ thr[t].pc = 2

\* C11: K() returns the multiplier cached at construction and never computes
\* the hash again, also when the cached hash output is the empty Value.
C11_CachedNeverRecomputed ==
    (call.op = "K" /\ call.outcome = "ok") =>
        (call.result = engine.k /\ call.hcalls = 0)

\* The magnitude of an integer.
Abs(n) == IF n < 0 THEN 0 - n ELSE n

\* The case of C13: a session over an odd prime N whose client base
\* B - k * (G^x mod N) is non-negative or whose exponent a + u * x is even.
SignHarmless == ClientBase >= 0 \/ ClientExponent % 2 = 0

\* C13: for matching v, A, B, u over an odd prime N, CalcClientS equals
\* CalcServerS whenever B - k * (G^x mod N) is non-negative or a + u * x is
\* even, CalcClientS raising the magnitude of that difference to a + u * x.
C13_AgreeWhenSignHarmless ==
    (ValidGroup /\ Has("Sc") /\ Has("Ss") /\ SignHarmless) =>
        /\ sess.Sc = sess.Ss
        /\ sess.Sc.int = Exp(Abs(ClientBase), ClientExponent, engine.N.int)

\* A session with a negative client base and an even exponent whose two
\* premaster secrets are the same non-trivial value.
C13_Witness ==
    /\ ValidGroup /\ Has("Sc") /\ Has("Ss")
    /\ ClientBase < 0 /\ ClientExponent % 2 = 0
    /\ sess.Sc = sess.Ss /\ sess.Sc.int > 1

\* The integer sum of the inputs of a call in pair.
RECURSIVE SumInts(_)
SumInts(in) == IF in = <<>> THEN 0 ELSE Head(in).int + SumInts(Tail(in))

PairFilled == pair.first # NoPairCall /\ pair.second # NoPairCall

====
